---------------------------- MODULE Spec2Model ----------------------------
(***************************************************************************)
(* ArduRoller: the balance controller of src/main.cpp.                     *)
(*                                                                         *)
(* The program is one timer interrupt handler, ISR(TIMER1_OVF_vect), that  *)
(* samples a gyro and a two-axis accelerometer, keeps a tilt estimate and  *)
(* drives two motor channels, plus setup() and a main loop() that only     *)
(* does something in the CALIBRATION build.                                *)
(*                                                                         *)
(* Numbers.  The handler computes in float.  Here every float is a fixed   *)
(* point integer: a value v is held as the integer v * SCALE (five         *)
(* decimal digits); the delay lines of filterx carry three more digits     *)
(* (FSCALE).  Every product and quotient is computed exactly on the        *)
(* scaled integers and then truncated toward zero.  TLC's integers are 32  *)
(* bits wide, so products are formed digit by digit (MulDivNat).           *)
(***************************************************************************)
EXTENDS Integers, Sequences, FiniteSets, TLC

VARIABLES
    \* ---- globals of main.cpp
    d_tilt_pot,        \* line 94
    tilt_pot,          \* line 95
    gyro_offset_pot,   \* line 96
    gyro_reading,      \* line 102
    x_reading,         \* line 103
    y_reading,         \* line 104
    \* ---- statics of filterx (lines 64): delay lines, index 1..3 for [0]..[2]
    xv,
    yv,
    \* ---- statics of the handler (lines 112-119)
    last_speed,
    tilt_rads,
    x_filt_gs,
    tilt_int_rads,
    reset_complete,
    loop_count,
    \* ---- the handler's local speed as it stands at line 183 (before mapping)
    speed,
    \* ---- the handler's locals of lines 134-136, as the latest run set them
    d_tilt_rads,
    x_gs,
    y_gs,
    \* ---- hardware registers and pins the program writes
    TCNT1,             \* timer 1 counter, RESET_TIMER1 (line 52)
    dir_a, dir_b,      \* digitalWrite(dir_a/dir_b): "HIGH" or "LOW"
    pwm_a, pwm_b,      \* analogWrite(pwm_a/pwm_b): the duty
    hw_log,            \* the hardware accesses of the latest handler run, in order
    \* ---- the build and the processor
    CALIBRATION,       \* line 50: whether the build defines CALIBRATION
    sreg_i,            \* the AVR global interrupt enable flag
    tov1,              \* timer 1 overflow flag: an interrupt is pending
    isr_stack,         \* positions of the handler invocations in progress
    main_pc,           \* position of loop()
    args_left,         \* the arguments of the first myprintf not yet loaded
    arg_gyro, arg_x, arg_y,   \* the values loop() has loaded for myprintf
    \* ---- bookkeeping of the environment and of the runs
    scenario,          \* what the surroundings do: "motion" or "bench"
    ticks,             \* handler invocations started since power-on
    stamp,             \* per shared reading: the invocation that wrote it
    arg_stamp,         \* per loaded argument: the invocation that wrote it
    trim_count,        \* per trim pin: how often it has been sampled
    trim_tick,         \* per trim pin: the invocation that sampled it last
    fallen_pending,    \* a tick met the Fallen condition and no tick since
                       \* then has seen x_gs inside the re-level deadband
    level_seen         \* a tick saw x_gs inside the deadband without meeting
                       \* the Fallen condition, and no tick since then met it

vars == << d_tilt_pot, tilt_pot, gyro_offset_pot, gyro_reading, x_reading,
           y_reading, xv, yv, last_speed, tilt_rads, x_filt_gs, tilt_int_rads,
           reset_complete, loop_count, speed, TCNT1, dir_a, dir_b, pwm_a,
           pwm_b, hw_log, CALIBRATION, sreg_i, tov1, isr_stack, main_pc,
           args_left, arg_gyro, arg_x, arg_y, scenario, ticks, stamp, arg_stamp,
           trim_count, trim_tick, fallen_pending, d_tilt_rads, x_gs, y_gs,
           level_seen >>

-----------------------------------------------------------------------------
(* Fixed point arithmetic *)

SCALE == 10^5
FSCALE == 10^8

Abs(x) == IF x < 0 THEN -x ELSE x

Min(a, b) == IF a < b THEN a ELSE b

\* The digit base of a product that is divided by d: 2 * base * d < 2^31.
DigitBase(d) ==
    IF d <= 10^5 THEN 10^4
    ELSE IF d <= 10^6 THEN 10^3
    ELSE IF d <= 10^7 THEN 100
    ELSE 10

\* <<q, r>> with a * b = q * d + r and 0 <= r < d, for a, b >= 0 and
\* 0 < d <= 10^8, without forming a * b.
RECURSIVE MulDivNat(_, _, _)
MulDivNat(a, b, d) ==
    IF b = 0 THEN << 0, 0 >>
    ELSE LET B == DigitBase(d)
             h == MulDivNat(a, b \div B, d)
             r == b % B
             t == B * h[2] + r * (a % d)
         IN  << B * h[1] + r * (a \div d) + t \div d, t % d >>

\* a * b / d truncated toward zero, as one float product or quotient.
MulDiv(a, b, d) ==
    LET q == IF Abs(a) < Abs(b) THEN MulDivNat(Abs(b), Abs(a), d)[1]
                                ELSE MulDivNat(Abs(a), Abs(b), d)[1]
    IN  IF (a < 0) = (b < 0) THEN q ELSE -q

\* a * b for two fixed point values
Mul(a, b) == MulDiv(a, b, SCALE)

\* r * r <= v * SCALE
SquareAtMost(r, v) ==
    LET s == MulDivNat(r, r, SCALE)
    IN  s[1] < v \/ (s[1] = v /\ s[2] = 0)

RECURSIVE SqrtSearch(_, _, _)
SqrtSearch(lo, hi, v) ==
    IF hi - lo <= 1 THEN lo
    ELSE LET mid == (lo + hi) \div 2
         IN  IF SquareAtMost(mid, v) THEN SqrtSearch(mid, hi, v)
                                     ELSE SqrtSearch(lo, mid, v)

\* sqrt(v) for a fixed point v >= 0, truncated
Sqrt(v) == SqrtSearch(0, 14654000, v)

-----------------------------------------------------------------------------
(* Compile time constants of main.cpp *)

ADC_RANGE == 1024

GYRO_MAX_DEG_PER_SEC == 150

\* radians per ADC unit, in units of 10^-10 (0.0174532925 rad per degree)
GYRO_RAD_PER_ADC_UNIT == MulDiv(GYRO_MAX_DEG_PER_SEC * 2, 174532925, ADC_RANGE)

\* ACCEL_MAX_G is 1.7: in tenths of a g
ACCEL_MAX_G == 17

\* g per ADC unit, in units of 10^-10
ACCEL_G_PER_ADC_UNIT == MulDiv(ACCEL_MAX_G * 2, 10^9, ADC_RANGE)

X_OFFSET == 8

\* 1.013464636e+03, in units of 10^-4
GAIN == 10134646

\* the feedback coefficients of filterx, in units of 10^-8:
\* -0.9131487721 * yv[0] and 1.9092019151 * yv[1]
FILTERX_Y0 == 91314877
FILTERX_Y1 == 190920192

MOTOR_A_FACTOR == 1
MOTOR_B_FACTOR == 1

\* RESET_TIMER1() stores 0xC000
TIMER1_RELOAD == 49152

HIGH == "HIGH"
LOW == "LOW"

-----------------------------------------------------------------------------
(* Unit conversion, lines 132-136 *)

\* d_tilt_rads with the constant GYRO_OFFSET (4.79, line 47) added to
\* the trim's offset
DTiltRadsFixedOffset(g, pot) ==
    MulDiv(GYRO_RAD_PER_ADC_UNIT, 10 * (512 - g) + (pot - 512) + 48, 10^6)

\* d_tilt_rads: GYRO_RAD_PER_ADC_UNIT * (512 - gyro_reading + gyro_offset),
\* gyro_offset = (gyro_offset_pot - 512) * 0.1.  The bracket is in tenths.
DTiltRads(g, pot) ==
    MulDiv(GYRO_RAD_PER_ADC_UNIT, 10 * (512 - g) + (pot - 512), 10^6)

\* x_gs with the fixed offset left out
XGsNoOffset(x) == MulDiv(ACCEL_G_PER_ADC_UNIT, x - 512, 10^5)

\* x_gs
XGs(x) == MulDiv(ACCEL_G_PER_ADC_UNIT, x - 512 + X_OFFSET, 10^5)

\* y_gs
YGs(y) == MulDiv(ACCEL_G_PER_ADC_UNIT, y - 512, 10^5)

-----------------------------------------------------------------------------
(* filterx, lines 62-71.  xv and yv are held in FSCALE. *)

\* line 65 left out: the delay line of the inputs is not shifted
FilterXvNoShift(in) == << xv[1], xv[2], MulDiv(in, 10^7, GAIN) >>

FilterXv(in) == << xv[2], xv[3], MulDiv(in, 10^7, GAIN) >>

FilterYv(nxv) ==
    << yv[2], yv[3],
       (nxv[1] + nxv[3]) + 2 * nxv[2]
         + (- MulDiv(FILTERX_Y0, yv[2], FSCALE))
         + MulDiv(FILTERX_Y1, yv[3], FSCALE) >>

\* the value returned, yv[2], as a fixed point value in SCALE
FilterOut(nyv) == MulDiv(nyv[3], 1, FSCALE \div SCALE)

-----------------------------------------------------------------------------
(* The state machine's conditions, lines 140 and 149 *)

\* the fall test without abs(): only a fall to the front counts
FallenCondNoAbs(ygs, xfilt) == ygs < SCALE \div 10 /\ xfilt > (6 * SCALE) \div 10

\* the fall test with the comparison of y_gs turned around
FallenCondYAbove(ygs, xfilt) == ygs > SCALE \div 10 /\ Abs(xfilt) > (6 * SCALE) \div 10

\* y_gs < 0.1 && abs(x_filt_gs) > 0.6
FallenCond(ygs, xfilt) == ygs < SCALE \div 10 /\ Abs(xfilt) > (6 * SCALE) \div 10

\* the deadband ten times as wide
InDeadbandWide(xgs) == -((2 * SCALE) \div 10) < xgs /\ xgs < (2 * SCALE) \div 10

\* the deadband test without its lower limit
InDeadbandUpperOnly(xgs) == xgs < (2 * SCALE) \div 100

\* -0.02 < x_gs && x_gs < 0.02
InDeadband(xgs) == -((2 * SCALE) \div 100) < xgs /\ xgs < (2 * SCALE) \div 100

\* the deadband tested ahead of the fall
ResetCompleteDeadbandFirst(fallen, indb, rc) ==
    IF ~rc /\ indb THEN TRUE ELSE IF fallen THEN FALSE ELSE rc

\* reset_complete after the if / else-if chain of lines 140-155, entered
\* with reset_complete = rc
ResetCompleteAfter(fallen, indb, rc) ==
    IF fallen THEN FALSE ELSE IF ~rc /\ indb THEN TRUE ELSE rc

-----------------------------------------------------------------------------
(* The controller's gains, lines 98-100, and the integral bound, line 164 *)

\* (3.5 / 512.0) * d_tilt_pot / GYRO_RAD_PER_ADC_UNIT; 3.5 / 512 in 10^-8
D_TILT_FACT(pot) == MulDiv(((35 * 10^7) \div 512) * pot, 10^7, GYRO_RAD_PER_ADC_UNIT)

\* TILT_FACT with the literal 512.0 in the place of tilt_pot
TiltFactFixed(pot) == MulDiv(((25 * 10^7) \div 512) * 512, SCALE, GYRO_RAD_PER_ADC_UNIT)

\* (0.025 / 512.0) * tilt_pot / GYRO_RAD_PER_ADC_UNIT; 0.025 / 512 in 10^-10
TILT_FACT(pot) == MulDiv(((25 * 10^7) \div 512) * pot, SCALE, GYRO_RAD_PER_ADC_UNIT)

\* (0.002 / 512.0) * 512.0 / GYRO_RAD_PER_ADC_UNIT; 0.002 / 512 in 10^-12
TILT_INT_FACT == MulDiv(((2 * 10^9) \div 512) * 512, 10^3, GYRO_RAD_PER_ADC_UNIT)

\* TILT_INT_FACT in a build whose trims are d_tilt_pot = dp, tilt_pot = tp and
\* gyro_offset_pot = gp: the macro of line 100 names none of them
TiltIntFactWith(dp, tp, gp) == TILT_INT_FACT

\* 300.0 * GYRO_RAD_PER_ADC_UNIT / TILT_INT_FACT
MAX_TILT_INT == MulDiv(MulDiv(300, GYRO_RAD_PER_ADC_UNIT, 10^5), SCALE, TILT_INT_FACT)

\* the clamp without its second if
ClampTiltIntUpperOnly(v) == IF v > MAX_TILT_INT THEN MAX_TILT_INT ELSE v

\* lines 166-173
ClampTiltInt(v) ==
    LET up == IF v > MAX_TILT_INT THEN MAX_TILT_INT ELSE v
    IN  IF up < -MAX_TILT_INT THEN -MAX_TILT_INT ELSE up

\* the command without the #ifndef CALIBRATION around it
SpeedCommandAnyBuild(tilt, tint, dtilt) ==
    Mul(tilt, TILT_FACT(tilt_pot))
      + Mul(tint, TILT_INT_FACT)
      + Mul(dtilt, D_TILT_FACT(d_tilt_pot))

\* lines 174-178: the speed command of a Balancing tick
SpeedCommand(tilt, tint, dtilt) ==
    IF CALIBRATION THEN 0
    ELSE Mul(tilt, TILT_FACT(tilt_pot))
           + Mul(tint, TILT_INT_FACT)
           + Mul(dtilt, D_TILT_FACT(d_tilt_pot))

\* the integral zeroed on every tick that is not a Balancing one
TiltIntZeroedUnlessBalancing(relevel, balancing, tilt) ==
    IF balancing THEN ClampTiltInt(tilt_int_rads + tilt) ELSE 0

\* tilt_int_rads after lines 140-173: zeroed on the re-level tick (line
\* 152), integrated and clamped on a Balancing tick (lines 162-173), else
\* not assigned
TiltIntAfter(relevel, balancing, tilt) ==
    IF relevel THEN 0
    ELSE IF balancing THEN ClampTiltInt(tilt_int_rads + tilt)
    ELSE tilt_int_rads

\* the command computed on the re-level tick as well
SpeedOfTickFromRelevel(relevel, balancing, tilt, tint, dtilt) ==
    IF balancing \/ relevel THEN SpeedCommand(tilt, tint, dtilt) ELSE 0

\* the local speed at line 183: 0 from line 111 (or line 143) unless the
\* Balancing branch assigned it
SpeedOfTick(relevel, balancing, tilt, tint, dtilt) ==
    IF balancing THEN SpeedCommand(tilt, tint, dtilt) ELSE 0

-----------------------------------------------------------------------------
(* The output mapper, lines 182-205 *)

\* the comparison with <= for <
DirectionZeroReverse(s) == IF s <= 0 THEN LOW ELSE HIGH

\* speed < 0 ? LOW : HIGH
Direction(s) == IF s < 0 THEN LOW ELSE HIGH

\* the mapping with the sign of the command kept
MapSpeedSigned(s) ==
    LET m == 7 * Sqrt(Abs(s))
    IN  IF s < 0 THEN -m ELSE IF m > 255 * SCALE THEN 255 * SCALE ELSE m

\* lines 186-190: speed = 7 * sqrt(abs(speed)), capped at 0xff
MapSpeed(s) ==
    LET m == 7 * Sqrt(Abs(s))
    IN  IF m > 255 * SCALE THEN 255 * SCALE ELSE m

\* lines 192-202: (long int)(speed * FACTOR), capped at 0xff
MotorSpeed(m, factor) ==
    LET v == (m * factor) \div SCALE
    IN  IF v > 255 THEN 255 ELSE v

-----------------------------------------------------------------------------
(* The trim sampler, lines 207-220 *)

\* the schedule with >= for the first ==
TrimSlotFrom500(lc) ==
    IF lc >= 500 THEN "A3"
    ELSE IF lc = 1000 THEN "A5"
    ELSE IF lc = 1500 THEN "A4"
    ELSE "none"

\* the analog pin read on a tick that starts with loop_count = lc
TrimSlot(lc) ==
    IF lc = 500 THEN "A3"
    ELSE IF lc = 1000 THEN "A5"
    ELSE IF lc = 1500 THEN "A4"
    ELSE "none"

\* loop_count++ in an else branch: no increment on the tick of the reset
NextLoopCountElse(lc) == IF lc = 1500 THEN 0 ELSE lc + 1

\* loop_count after the tick
NextLoopCount(lc) == (IF lc = 1500 THEN 0 ELSE lc) + 1

-----------------------------------------------------------------------------
(* The surroundings *)

\* Bounds of the runs.
MaxMotionTicks == 36
HoldTicks == 9
MaxBenchTicks == 3002
MaxSweepTicks == 2

\* Raw samples <<gyro, x, y>> the sensors deliver while the vehicle is moved.
MotionSamples ==
    { << 512, 504, 1023 >>,     \* upright, level, at rest
      << 512, 512, 1023 >>,     \* upright, x at the ADC midpoint
      << 0, 510, 1023 >>,       \* upright, rotating at the full positive rate
      << 1023, 498, 1023 >>,    \* upright, rotating at the full negative rate
      << 512, 1023, 512 >>,     \* lying on its front
      << 512, 0, 542 >>,        \* lying on its back
      << 512, 1023, 543 >>,     \* tipped forward, y just above the fall level
      << 512, 504, 512 >> }     \* x level, y at the ADC midpoint

\* On the bench the vehicle stands level and at rest while the trims are turned.
BenchSample == << 512, 504, 1023 >>

\* Values the trim pots deliver.
PotInputs == { 0, 1023 }

\* One sensor at a time is taken through its whole range, the others rest
\* at their zero points.
SweepSamples ==
    { << v, 512 - X_OFFSET, 512 >> : v \in 0..(ADC_RANGE - 1) }
      \cup { << 512, v, 512 >> : v \in 0..(ADC_RANGE - 1) }
      \cup { << 512, 512 - X_OFFSET, v >> : v \in 0..(ADC_RANGE - 1) }

\* The samples the next handler run can read.  While moved, the attitude is
\* held for HoldTicks ticks at a time; a sweep holds its sample.
Samples ==
    IF scenario = "bench" THEN { BenchSample }
    ELSE IF scenario = "sweep"
      THEN (IF ticks = 0 THEN SweepSamples
            ELSE { << gyro_reading, x_reading, y_reading >> })
    ELSE IF ticks % HoldTicks = 0 THEN MotionSamples
    ELSE { << gyro_reading, x_reading, y_reading >> }

MaxTicks ==
    IF scenario = "bench" THEN MaxBenchTicks
    ELSE IF scenario = "sweep" THEN MaxSweepTicks
    ELSE MaxMotionTicks

\* The analog pins of the three trim pots: d_tilt_pot, tilt_pot,
\* gyro_offset_pot.
TrimPins == { "A3", "A5", "A4" }

-----------------------------------------------------------------------------
(* The state after construction and setup() *)

InitProgram ==
    /\ d_tilt_pot = 512
    /\ tilt_pot = 512
    /\ gyro_offset_pot = 512
    /\ gyro_reading = 0
    /\ x_reading = 0
    /\ y_reading = 0
    /\ xv = << 0, 0, 0 >>
    /\ yv = << 0, 0, 0 >>
    /\ last_speed = 0
    /\ tilt_rads = 0
    /\ x_filt_gs = 0
    /\ tilt_int_rads = 0
    /\ reset_complete = FALSE
    /\ loop_count = 0
    /\ speed = 0
    /\ d_tilt_rads = 0
    /\ x_gs = 0
    /\ y_gs = 0
    /\ TCNT1 = TIMER1_RELOAD
    /\ dir_a = LOW
    /\ dir_b = LOW
    /\ pwm_a = 0
    /\ pwm_b = 0
    /\ hw_log = << >>
    /\ sreg_i = TRUE
    /\ tov1 = FALSE
    /\ isr_stack = << >>
    /\ main_pc = "loop"
    /\ args_left = { }
    /\ arg_gyro = 0
    /\ arg_x = 0
    /\ arg_y = 0
    /\ ticks = 0
    /\ stamp = [ r \in { "gyro", "x", "y" } |-> 0 ]
    /\ arg_stamp = [ r \in { "gyro", "x", "y" } |-> 0 ]
    /\ trim_count = [ p \in TrimPins |-> 0 ]
    /\ trim_tick = [ p \in TrimPins |-> 0 ]
    /\ fallen_pending = FALSE
    /\ level_seen = FALSE

Init ==
    /\ InitProgram
    /\ CALIBRATION = FALSE
    /\ scenario \in { "motion", "bench" }

-----------------------------------------------------------------------------
(* Groups of variables *)

\* what Body writes, hw_log aside
bodyVars == << d_tilt_pot, tilt_pot, gyro_offset_pot, xv, yv, last_speed,
               tilt_rads, x_filt_gs, tilt_int_rads, reset_complete, loop_count,
               speed, dir_a, dir_b, pwm_a, pwm_b, trim_count, trim_tick,
               fallen_pending, d_tilt_rads, x_gs, y_gs, level_seen >>

readingVars == << gyro_reading, x_reading, y_reading, stamp >>

mainVars == << main_pc, args_left, arg_gyro, arg_x, arg_y, arg_stamp >>

-----------------------------------------------------------------------------
(* The handler, ISR(TIMER1_OVF_vect), lines 106-221 *)

\* the timer re-armed after the sensor reads
ReadLogTimerLast == << "gyro_pin", "x_pin", "y_pin", "TCNT1" >>

\* The hardware accesses of lines 123-130, in program order.
ReadLog == << "TCNT1", "gyro_pin", "x_pin", "y_pin" >>

\* The hardware accesses of lines 183-205, in program order.
WriteLog == << "dir_a", "dir_b", "pwm_a", "pwm_b" >>

\* The trim read of lines 207-219, if the tick has one.
TrimLog(lc) == IF TrimSlot(lc) = "none" THEN << >> ELSE << TrimSlot(lc) >>

\* Lines 132-220 of invocation n, with gyro_reading = g, x_reading = x and
\* y_reading = y read, pot the value the trim pot of this tick delivers, and
\* log the hardware accesses made so far.  The locals are bound one after
\* the other, each to its value.
Body(g, x, y, pot, log, n) ==
    \E dt \in { DTiltRads(g, gyro_offset_pot) },
       xg \in { XGs(x) },
       yg \in { YGs(y) } :
    \E nxv \in { FilterXv(xg) } :
    \E nyv \in { FilterYv(nxv) } :
    \E filt \in { FilterOut(nyv) } :
    \E fallen \in { FallenCond(yg, filt) } :
    \E relevel \in { ~fallen /\ ~reset_complete /\ InDeadband(xg) },
       balancing \in { ~fallen /\ reset_complete } :
    \E tilt \in { IF relevel THEN xg
                ELSE IF balancing THEN tilt_rads + (dt + filt)
                ELSE tilt_rads } :
    \E tint \in { TiltIntAfter(relevel, balancing, tilt) } :
    \E spd \in { SpeedOfTick(relevel, balancing, tilt, tint, dt) } :
    \E mapped \in { MapSpeed(spd) }, slot \in { TrimSlot(loop_count) } :
        /\ d_tilt_rads' = dt
        /\ x_gs' = xg
        /\ y_gs' = yg
        /\ xv' = nxv
        /\ yv' = nyv
        /\ x_filt_gs' = filt
        /\ reset_complete' =
             ResetCompleteAfter(fallen, InDeadband(xg), reset_complete)
        /\ tilt_rads' = tilt
        /\ tilt_int_rads' = tint
        /\ last_speed' = (IF balancing THEN spd ELSE last_speed)
        /\ speed' = spd
        /\ dir_a' = Direction(spd)
        /\ dir_b' = Direction(spd)
        /\ pwm_a' = MotorSpeed(mapped, MOTOR_A_FACTOR)
        /\ pwm_b' = MotorSpeed(mapped, MOTOR_B_FACTOR)
        /\ d_tilt_pot' = (IF slot = "A3" THEN pot ELSE d_tilt_pot)
        /\ tilt_pot' = (IF slot = "A5" THEN pot ELSE tilt_pot)
        /\ gyro_offset_pot' = (IF slot = "A4" THEN pot ELSE gyro_offset_pot)
        /\ loop_count' = NextLoopCount(loop_count)
        /\ hw_log' = log \o WriteLog \o TrimLog(loop_count)
        /\ trim_count' = [ p \in TrimPins |->
                             IF p = slot THEN trim_count[p] + 1 ELSE trim_count[p] ]
        /\ trim_tick' = [ p \in TrimPins |->
                             IF p = slot THEN n ELSE trim_tick[p] ]
        /\ fallen_pending' =
             (IF yg < SCALE \div 10 /\ Abs(filt) > (6 * SCALE) \div 10 THEN TRUE
              ELSE IF -((2 * SCALE) \div 100) < xg /\ xg < (2 * SCALE) \div 100
                   THEN FALSE
              ELSE fallen_pending)
        /\ level_seen' =
             (IF yg < SCALE \div 10 /\ Abs(filt) > (6 * SCALE) \div 10 THEN FALSE
              ELSE IF -((2 * SCALE) \div 100) < xg /\ xg < (2 * SCALE) \div 100
                   THEN TRUE
              ELSE level_seen)

\* One timer overflow served: the whole handler, which runs with interrupts
\* disabled and so to completion.
Tick ==
    /\ ticks < MaxTicks
    /\ \E s \in Samples :
       \E pot \in (IF TrimSlot(loop_count) = "none" THEN { 0 } ELSE PotInputs) :
          /\ TCNT1' = TIMER1_RELOAD
          /\ gyro_reading' = s[1]
          /\ x_reading' = s[2]
          /\ y_reading' = s[3]
          /\ Body(s[1], s[2], s[3], pot, ReadLog, ticks + 1)
    /\ ticks' = ticks + 1
    /\ stamp' = [ r \in { "gyro", "x", "y" } |-> ticks + 1 ]
    /\ UNCHANGED << CALIBRATION, sreg_i, tov1, isr_stack, scenario >>
    /\ UNCHANGED mainVars

Next == Tick

Spec == Init /\ [][Next]_vars

\* The handler on a sweep of the raw values.
InitSweep ==
    /\ InitProgram
    /\ CALIBRATION = FALSE
    /\ scenario = "sweep"

SpecSweep == InitSweep /\ [][Next]_vars

\* The handler of the CALIBRATION build, run by run.
InitCalRun ==
    /\ InitProgram
    /\ CALIBRATION = TRUE
    /\ scenario \in { "motion", "bench" }

SpecCalRun == InitCalRun /\ [][Next]_vars

-----------------------------------------------------------------------------
(* The CALIBRATION build, step by step: the handler against loop() *)

\* Bound of the runs: handler invocations.
MaxCalTicks == 3

\* Raw samples of these runs.
CalSamples ==
    { << 512, 504, 1023 >>, << 0, 510, 1023 >>, << 1023, 498, 1023 >> }

InitCal ==
    /\ InitProgram
    /\ CALIBRATION = TRUE
    /\ scenario = "motion"

\* The I flag inside ATOMIC_BLOCK(ATOMIC_FORCEON): the block starts with cli().
NoAtomicBlock == sreg_i

ATOMIC_BLOCK_I == FALSE

\* The I flag while a handler declared with ISR() runs: the hardware clears it
\* on entry and the handler never sets it.
ISR_I == FALSE

\* Timer 1 overflows: the interrupt becomes pending.
TimerOverflow ==
    /\ ~tov1
    /\ ticks < MaxCalTicks
    /\ tov1' = TRUE
    /\ UNCHANGED << bodyVars, readingVars, mainVars, TCNT1, hw_log, CALIBRATION,
                    sreg_i, isr_stack, scenario, ticks >>

\* The processor takes the pending interrupt: it may whenever the I flag is
\* set, between any two instructions of loop() or of a handler.
IsrEnter ==
    /\ tov1
    /\ sreg_i
    /\ \E s \in CalSamples :
          isr_stack' = << [ pc |-> "reset_timer", n |-> ticks + 1, s |-> s ] >>
                          \o isr_stack
    /\ tov1' = FALSE
    /\ sreg_i' = ISR_I
    /\ ticks' = ticks + 1
    /\ UNCHANGED << bodyVars, readingVars, mainVars, TCNT1, hw_log, CALIBRATION,
                    scenario >>

\* the running invocation
IsrAt(pc) == isr_stack # << >> /\ isr_stack[1].pc = pc

IsrGoto(pc) == isr_stack' = << [ isr_stack[1] EXCEPT !.pc = pc ] >> \o Tail(isr_stack)

\* line 123
IsrResetTimer ==
    /\ IsrAt("reset_timer")
    /\ TCNT1' = TIMER1_RELOAD
    /\ hw_log' = << "TCNT1" >>
    /\ IsrGoto("read_gyro")
    /\ UNCHANGED << bodyVars, readingVars, mainVars, CALIBRATION, sreg_i, tov1,
                    scenario, ticks >>

\* line 126
IsrReadGyro ==
    /\ IsrAt("read_gyro")
    /\ gyro_reading' = isr_stack[1].s[1]
    /\ stamp' = [ stamp EXCEPT !["gyro"] = isr_stack[1].n ]
    /\ hw_log' = Append(hw_log, "gyro_pin")
    /\ IsrGoto("read_x")
    /\ UNCHANGED << bodyVars, x_reading, y_reading, mainVars, TCNT1, CALIBRATION,
                    sreg_i, tov1, scenario, ticks >>

\* line 129
IsrReadX ==
    /\ IsrAt("read_x")
    /\ x_reading' = isr_stack[1].s[2]
    /\ stamp' = [ stamp EXCEPT !["x"] = isr_stack[1].n ]
    /\ hw_log' = Append(hw_log, "x_pin")
    /\ IsrGoto("read_y")
    /\ UNCHANGED << bodyVars, gyro_reading, y_reading, mainVars, TCNT1,
                    CALIBRATION, sreg_i, tov1, scenario, ticks >>

\* line 130
IsrReadY ==
    /\ IsrAt("read_y")
    /\ y_reading' = isr_stack[1].s[3]
    /\ stamp' = [ stamp EXCEPT !["y"] = isr_stack[1].n ]
    /\ hw_log' = Append(hw_log, "y_pin")
    /\ IsrGoto("body")
    /\ UNCHANGED << bodyVars, gyro_reading, x_reading, mainVars, TCNT1,
                    CALIBRATION, sreg_i, tov1, scenario, ticks >>

\* lines 132-221 and the return from the interrupt, which sets the I flag
IsrBody ==
    /\ IsrAt("body")
    /\ \E pot \in (IF TrimSlot(loop_count) = "none" THEN { 0 } ELSE PotInputs) :
          Body(gyro_reading, x_reading, y_reading, pot, hw_log, isr_stack[1].n)
    /\ isr_stack' = Tail(isr_stack)
    /\ sreg_i' = TRUE
    /\ UNCHANGED << readingVars, mainVars, TCNT1, CALIBRATION, tov1, scenario,
                    ticks >>

\* loop(), lines 246-256, runs while no handler does.
MainAt(pc) == CALIBRATION /\ isr_stack = << >> /\ main_pc = pc

\* line 249: the block is entered
LoopEnterAtomic ==
    /\ MainAt("loop")
    /\ sreg_i' = ATOMIC_BLOCK_I
    /\ main_pc' = "load"
    /\ args_left' = { "gyro", "x", "y" }
    /\ UNCHANGED << bodyVars, readingVars, arg_gyro, arg_x, arg_y, arg_stamp,
                    TCNT1, hw_log, CALIBRATION, tov1, isr_stack, scenario, ticks >>

\* line 251: the three arguments are loaded, in an order C leaves open
LoopLoadArg ==
    /\ MainAt("load")
    /\ \E r \in args_left :
          /\ args_left' = args_left \ { r }
          /\ arg_gyro' = (IF r = "gyro" THEN gyro_reading ELSE arg_gyro)
          /\ arg_x' = (IF r = "x" THEN x_reading ELSE arg_x)
          /\ arg_y' = (IF r = "y" THEN y_reading ELSE arg_y)
          /\ arg_stamp' = [ arg_stamp EXCEPT ![r] = stamp[r] ]
          /\ main_pc' = (IF args_left = { r } THEN "print" ELSE "load")
    /\ UNCHANGED << bodyVars, readingVars, TCNT1, hw_log, CALIBRATION, sreg_i,
                    tov1, isr_stack, scenario, ticks >>

\* lines 251-252: both lines are printed
LoopPrint ==
    /\ MainAt("print")
    /\ main_pc' = "exit"
    /\ UNCHANGED << bodyVars, readingVars, args_left, arg_gyro, arg_x, arg_y,
                    arg_stamp, TCNT1, hw_log, CALIBRATION, sreg_i, tov1,
                    isr_stack, scenario, ticks >>

\* line 253: ATOMIC_FORCEON sets the I flag when the block is left
LoopExitAtomic ==
    /\ MainAt("exit")
    /\ sreg_i' = TRUE
    /\ main_pc' = "delay"
    /\ UNCHANGED << bodyVars, readingVars, args_left, arg_gyro, arg_x, arg_y,
                    arg_stamp, TCNT1, hw_log, CALIBRATION, tov1, isr_stack,
                    scenario, ticks >>

\* line 254
LoopDelay ==
    /\ MainAt("delay")
    /\ main_pc' = "loop"
    /\ UNCHANGED << bodyVars, readingVars, args_left, arg_gyro, arg_x, arg_y,
                    arg_stamp, TCNT1, hw_log, CALIBRATION, sreg_i, tov1,
                    isr_stack, scenario, ticks >>

NextCal ==
    \/ TimerOverflow
    \/ IsrEnter
    \/ IsrResetTimer
    \/ IsrReadGyro
    \/ IsrReadX
    \/ IsrReadY
    \/ IsrBody
    \/ LoopEnterAtomic
    \/ LoopLoadArg
    \/ LoopPrint
    \/ LoopExitAtomic
    \/ LoopDelay

SpecCal == InitCal /\ [][NextCal]_vars

-----------------------------------------------------------------------------
(* What a state shows of the tick that led to it *)

\* accel_x_g and accel_y_g of the latest tick
AccelXG == XGs(x_reading)
AccelYG == YGs(y_reading)

DutiesZero == pwm_a = 0 /\ pwm_b = 0

Balancing == reset_complete

\* the Fallen condition and the re-level condition on the latest tick's values
FallenNow == y_gs < SCALE \div 10 /\ Abs(x_filt_gs) > (6 * SCALE) \div 10

LevelNow == -((2 * SCALE) \div 100) < x_gs /\ x_gs < (2 * SCALE) \div 100

\* the values a trim can hold: its initial value and what the pots deliver
TrimValues == PotInputs \cup { 512 }

\* every trim has been sampled
TrimsSampled == \A p \in TrimPins : trim_count[p] >= 1

Sign(v) == IF v < 0 THEN -1 ELSE IF v > 0 THEN 1 ELSE 0

\* the entries of a hardware log that are trim reads
TrimReads(log) == { i \in DOMAIN log : log[i] \in TrimPins }

\* the tick (counted from 1) of the first sample of each trim
FirstTrimTick(p) == IF p = "A3" THEN 501 ELSE IF p = "A5" THEN 1001 ELSE 1501

-----------------------------------------------------------------------------
(* The claims *)

\* C1: at the end of every tick the stored tilt integral lies in
\* [-MAX_TILT_INT, MAX_TILT_INT], whatever the sensors and the trim pots
\* delivered; MAX_TILT_INT is a constant that no trim pot enters.
C1_TiltIntBounded ==
    -MAX_TILT_INT <= tilt_int_rads /\ tilt_int_rads <= MAX_TILT_INT

\* the integral saturated at the lower bound after all three trims changed
C1_Witness ==
    /\ tilt_int_rads = -MAX_TILT_INT
    /\ d_tilt_pot # 512 /\ tilt_pot # 512 /\ gyro_offset_pot # 512

\* C2: the duties written to both motor channels are integers in 0..255 on
\* every tick.
C2_DutyInRange == pwm_a \in 0..255 /\ pwm_b \in 0..255

\* a large negative speed command, mapped to the full duty
C2_Witness == speed < -2000 * SCALE /\ pwm_a = 255 /\ pwm_b = 255

\* C3: on a tick that meets the Fallen condition both duties are 0, and they
\* stay 0 on every later tick until a tick sees x_gs inside the deadband.
C3_FallenDutyZero == fallen_pending => DutiesZero

\* after a fall out of Balancing, a later tick that neither meets the Fallen
\* condition nor sees the deadband
C3_Witness ==
    /\ fallen_pending
    /\ last_speed # 0
    /\ AccelYG >= SCALE \div 10
    /\ DutiesZero

\* C4: while reset_complete is false, a tick whose x_gs is outside
\* [-0.02, 0.02] leaves it false and writes duty 0 to both channels.
C4_NoBalancingOutsideDeadband ==
    [][ ( /\ ~reset_complete
          /\ ~( -((2 * SCALE) \div 100) <= XGs(x_reading')
                /\ XGs(x_reading') <= (2 * SCALE) \div 100 ) )
        => ( ~reset_complete' /\ pwm_a' = 0 /\ pwm_b' = 0 ) ]_vars

\* two hold periods after power-on with x at the ADC midpoint, never righted
C4_Witness ==
    /\ ticks >= 18
    /\ x_reading = 512
    /\ ~reset_complete
    /\ ~fallen_pending
    /\ DutiesZero

\* C5 as stated: from power-on, the sample x = 512, y = 1023, gyro = 512
\* makes the system Balancing within the first tick.
C5_Original ==
    (ticks = 1 /\ gyro_reading = 512 /\ x_reading = 512 /\ y_reading = 1023)
        => Balancing

\* C5 amended: the level sample is x = 504 = 512 - X_OFFSET; fed from
\* power-on it makes the system Balancing within the first tick, and fed on
\* every tick (the bench) the system is Balancing from then on.
C5_LevelSampleBalances ==
    /\ (ticks = 1 /\ gyro_reading = 512 /\ x_reading = 504 /\ y_reading = 1023)
          => Balancing
    /\ (scenario = "bench" /\ ticks >= 1) => Balancing

C5_Witness ==
    ticks = 1 /\ gyro_reading = 512 /\ x_reading = 504 /\ y_reading = 1023
      /\ Balancing /\ tilt_rads = 0

\* C6 as stated: a tick with y_gs = 0 and unfiltered |x_gs| > 0.6 ends with
\* reset_complete false and both duties 0.
C6_Original ==
    (ticks >= 1 /\ y_reading = 512 /\ Abs(AccelXG) > (6 * SCALE) \div 10)
        => (~reset_complete /\ DutiesZero)

\* C6 amended: a tick with y_gs = 0 on which the filtered x_gs is beyond 0.6
\* in size ends with reset_complete false and both duties 0.
C6_FilteredFallStops ==
    (ticks >= 1 /\ y_reading = 512 /\ Abs(x_filt_gs) > (6 * SCALE) \div 10)
        => (~reset_complete /\ DutiesZero)

\* such a tick out of Balancing with a tilt integral that is not 0
C6_Witness ==
    /\ y_reading = 512
    /\ Abs(x_filt_gs) > (6 * SCALE) \div 10
    /\ tilt_int_rads # 0
    /\ last_speed # 0
    /\ ~reset_complete

\* C7: a trim is read and written only on the tick of its counter value (500:
\* d_tilt_pot, 1000: tilt_pot, 1500: gyro_offset_pot), all trims are left
\* alone on the other ticks, and no tick reads more than one trim pot.
C7_TrimsOnSchedule ==
    [][ /\ (d_tilt_pot' # d_tilt_pot \/ trim_count'["A3"] # trim_count["A3"])
              => loop_count = 500
        /\ (tilt_pot' # tilt_pot \/ trim_count'["A5"] # trim_count["A5"])
              => loop_count = 1000
        /\ (gyro_offset_pot' # gyro_offset_pot
              \/ trim_count'["A4"] # trim_count["A4"])
              => loop_count = 1500
        /\ \A i \in TrimReads(hw_log') :
              hw_log'[i] = (IF loop_count = 500 THEN "A3"
                            ELSE IF loop_count = 1000 THEN "A5" ELSE "A4")
        /\ Cardinality(TrimReads(hw_log')) =
              (IF loop_count \in { 500, 1000, 1500 } THEN 1 ELSE 0) ]_vars

\* the tick of counter value 1000 has written tilt_pot, d_tilt_pot was
\* written before
C7_Witness ==
    /\ hw_log # << >>
    /\ hw_log[Len(hw_log)] = "A5"
    /\ tilt_pot = 0
    /\ d_tilt_pot = 1023

\* C8 as stated: each window of 1500 ticks counted from power-on, the first
\* included, holds exactly one sample of each trim.
C8_Original ==
    (ticks % 1500 = 0) => \A p \in TrimPins : trim_count[p] = ticks \div 1500

\* C8 amended: the trims are first sampled on ticks 501, 1001 and 1501 and
\* then every 1500 ticks; the counter shows 0..1500 in the first cycle and
\* 1..1500 afterwards.
C8_TrimPeriod ==
    /\ \A p \in TrimPins :
          /\ trim_count[p] =
               (IF ticks < FirstTrimTick(p) THEN 0
                ELSE (ticks - FirstTrimTick(p)) \div 1500 + 1)
          /\ trim_tick[p] =
               (IF ticks < FirstTrimTick(p) THEN 0
                ELSE FirstTrimTick(p)
                       + 1500 * ((ticks - FirstTrimTick(p)) \div 1500))
    /\ loop_count = (IF ticks <= 1500 THEN ticks ELSE ((ticks - 1) % 1500) + 1)

\* every trim has been sampled twice
C8_Witness == \A p \in TrimPins : trim_count[p] = 2

\* C9: in every handler run the timer is re-armed first: the first hardware
\* access is the store to TCNT1, before the sensor reads, the motor writes
\* and the trim read, on every path, and it is made once.
C9_TimerRearmedFirst ==
    /\ hw_log # << >> =>
          /\ hw_log[1] = "TCNT1"
          /\ \A i \in 2..Len(hw_log) : hw_log[i] # "TCNT1"
    /\ ticks >= 1 => (hw_log # << >> /\ TCNT1 = TIMER1_RELOAD)

\* a run on the Fallen path, and with it the sensor reads and motor writes
C9_Witness ==
    /\ Len(hw_log) = 8
    /\ fallen_pending
    /\ AccelYG < SCALE \div 10
    /\ Abs(x_filt_gs) > (6 * SCALE) \div 10

\* C10: in the CALIBRATION build the three readings loop() prints together
\* were written by one handler invocation (or are all still the initial
\* ones) and are the current ones, no handler runs while loop() is inside
\* its atomic block, and the handler is never entered while it runs.
C10_ConsistentSnapshot ==
    /\ main_pc \in { "print", "exit" } =>
          /\ arg_stamp["gyro"] = arg_stamp["x"]
          /\ arg_stamp["x"] = arg_stamp["y"]
          /\ << arg_gyro, arg_x, arg_y >> = << gyro_reading, x_reading, y_reading >>
    /\ main_pc \in { "load", "print", "exit" } => isr_stack = << >>
    /\ Len(isr_stack) <= 1

\* loop() is about to print what the second invocation wrote, while the
\* next interrupt is pending and held off
C10_Witness ==
    /\ main_pc = "print"
    /\ tov1
    /\ arg_stamp = [ r \in { "gyro", "x", "y" } |-> 2 ]
    /\ << arg_gyro, arg_x, arg_y >> = << 0, 510, 1023 >>

\* C11: with gyro_offset_pot at 512, gyro_reading = 512 converts to
\* d_tilt_rads = 0, y_reading = 512 to y_gs = 0 and x_reading = 512 - X_OFFSET
\* to x_gs = 0; every other raw value converts to a value that is not 0 and
\* has the sign of 512 - gyro_reading, of x_reading - (512 - X_OFFSET) and of
\* y_reading - 512.
C11_ZeroPoints ==
    (ticks >= 1 /\ gyro_offset_pot = 512) =>
        /\ Sign(d_tilt_rads) = Sign(512 - gyro_reading)
        /\ Sign(x_gs) = Sign(x_reading - (512 - X_OFFSET))
        /\ Sign(y_gs) = Sign(y_reading - 512)

\* the raw value next to the gyro's zero point, converted
C11_Witness ==
    /\ ticks >= 1
    /\ gyro_offset_pot = 512
    /\ gyro_reading = 513
    /\ d_tilt_rads < 0
    /\ x_gs = 0
    /\ y_gs = 0

\* C12: a tick that meets the Fallen condition ends with reset_complete
\* false, also when its x_gs is inside the deadband; a tick that starts with
\* reset_complete true and does not meet the Fallen condition ends with it
\* true.
C12_FallenWins ==
    [][ /\ FallenNow' => ~reset_complete'
        /\ (reset_complete /\ ~FallenNow') => reset_complete' ]_vars

\* a tick that meets both conditions, after an integral was accumulated
C12_Witness ==
    /\ FallenNow
    /\ LevelNow
    /\ ~reset_complete
    /\ tilt_int_rads # 0

\* C13: the tick that takes reset_complete from false to true sets tilt_rads
\* to its x_gs, which is inside (-0.02, 0.02), and tilt_int_rads to 0.
C13_RelevelSeeds ==
    [][ (~reset_complete /\ reset_complete') =>
            /\ tilt_rads' = x_gs'
            /\ Abs(tilt_rads') < (2 * SCALE) \div 100
            /\ tilt_int_rads' = 0 ]_vars

\* the re-level tick after a fall out of Balancing: last_speed still holds
\* the command of the last Balancing tick
C13_Witness ==
    /\ reset_complete
    /\ speed = 0
    /\ last_speed # 0
    /\ tilt_rads = x_gs
    /\ tilt_rads # 0
    /\ tilt_int_rads = 0

\* C14: a tick that meets the Fallen condition, and a tick that starts with
\* reset_complete false and has its x_gs outside the deadband, leave
\* tilt_rads and tilt_int_rads as they were and advance both delay lines of
\* filterx by one place.
C14_TiltFrozenFilterRuns ==
    [][ (FallenNow' \/ (~reset_complete /\ ~LevelNow')) =>
            /\ tilt_rads' = tilt_rads
            /\ tilt_int_rads' = tilt_int_rads
            /\ xv'[1] = xv[2] /\ xv'[2] = xv[3]
            /\ xv'[3] = MulDiv(x_gs', 10^7, GAIN)
            /\ yv'[1] = yv[2] /\ yv'[2] = yv[3]
            /\ x_filt_gs' = FilterOut(yv') ]_vars

\* after a fall, still tilted and upright again but outside the deadband: the
\* estimate of the fall is kept while the filter follows the sensor
C14_Witness ==
    /\ ~reset_complete
    /\ ~FallenNow
    /\ ~LevelNow
    /\ y_gs >= SCALE \div 10
    /\ tilt_rads # 0
    /\ tilt_int_rads # 0
    /\ xv[1] # xv[3]

\* C15 as stated: at the end of every tick that leaves reset_complete false,
\* tilt_int_rads is 0.
C15_Original == ~reset_complete => tilt_int_rads = 0

\* C15 amended: a tick that ends with reset_complete false does not write
\* tilt_int_rads, so after a fall it keeps the value accumulated up to the
\* fall (and the 0 of power-on before the first re-level); the tick that
\* re-levels sets it to 0.
C15_IntegralKeptUntilRelevel ==
    [][ /\ ~reset_complete' => tilt_int_rads' = tilt_int_rads
        /\ (~reset_complete /\ reset_complete') => tilt_int_rads' = 0 ]_vars

\* lying fallen with the integral of the time before the fall
C15_Witness ==
    /\ ~reset_complete
    /\ FallenNow
    /\ ~LevelNow
    /\ last_speed # 0
    /\ tilt_int_rads # 0

\* C16: a tick writes a duty other than 0 only if an earlier tick saw x_gs
\* inside the deadband without meeting the Fallen condition, no tick since
\* then met it, and the tick itself does not meet it; the first tick after
\* power-on and the tick that re-levels write duty 0.
C16_NoDriveBeforeRelevel ==
    [][ /\ (pwm_a' # 0 \/ pwm_b' # 0) => (level_seen /\ ~FallenNow')
        /\ ticks = 0 => (pwm_a' = 0 /\ pwm_b' = 0)
        /\ (~reset_complete /\ reset_complete') => (pwm_a' = 0 /\ pwm_b' = 0) ]_vars

\* driving on a tick outside the deadband, some ticks after the re-level
C16_Witness ==
    /\ pwm_a > 0
    /\ pwm_b > 0
    /\ ~LevelNow
    /\ level_seen
    /\ reset_complete

\* C17: every tick writes dir_a, dir_b, pwm_a and pwm_b once each, the
\* directions ahead of the duties; the direction is LOW exactly when the
\* speed before the mapping is negative, so it is HIGH on a tick that meets
\* the Fallen condition or starts with reset_complete false; both channels
\* get the same direction and the same duty.
C17_OutputsEveryTick ==
    [][ /\ \A o \in { "dir_a", "dir_b", "pwm_a", "pwm_b" } :
              Cardinality({ i \in DOMAIN hw_log' : hw_log'[i] = o }) = 1
        /\ \A i, j \in DOMAIN hw_log' :
              (hw_log'[i] \in { "dir_a", "dir_b" }
                 /\ hw_log'[j] \in { "pwm_a", "pwm_b" }) => i < j
        /\ dir_a' = (IF speed' < 0 THEN "LOW" ELSE "HIGH")
        /\ dir_b' = dir_a'
        /\ pwm_b' = pwm_a'
        /\ (FallenNow' \/ ~reset_complete) => dir_a' = "HIGH" ]_vars

\* a Balancing tick that drives in reverse
C17_Witness ==
    /\ speed < 0
    /\ dir_a = "LOW"
    /\ dir_b = "LOW"
    /\ pwm_a \in 1..254
    /\ Len(hw_log) = 8

\* C18 as stated: compared with a run whose trims hold other values, the
\* gain of tilt_rads differs when tilt_pot differs, the gain of d_tilt_rads
\* differs when d_tilt_pot differs, and there is a trim with which the gain
\* of tilt_int_rads differs.
C18_Original ==
    TrimsSampled =>
        /\ \A tp \in TrimValues : tp # tilt_pot => TILT_FACT(tp) # TILT_FACT(tilt_pot)
        /\ \A dp \in TrimValues :
              dp # d_tilt_pot => D_TILT_FACT(dp) # D_TILT_FACT(d_tilt_pot)
        /\ \E c \in 1..3 : \A t \in TrimValues \X TrimValues \X TrimValues :
              t[c] # << d_tilt_pot, tilt_pot, gyro_offset_pot >>[c]
                => TiltIntFactWith(t[1], t[2], t[3])
                     # TiltIntFactWith(d_tilt_pot, tilt_pot, gyro_offset_pot)

\* C18 amended: the gain of tilt_rads differs when tilt_pot differs and the
\* gain of d_tilt_rads differs when d_tilt_pot differs; the gain of
\* tilt_int_rads is the same for all values of the three trims; a
\* Balancing tick computes its command with the gains of the trims as they
\* stand when the tick starts.
C18_TwoGainsFollowTrims ==
    [][ /\ \A tp \in TrimValues : tp # tilt_pot => TILT_FACT(tp) # TILT_FACT(tilt_pot)
        /\ \A dp \in TrimValues :
              dp # d_tilt_pot => D_TILT_FACT(dp) # D_TILT_FACT(d_tilt_pot)
        /\ \A t \in TrimValues \X TrimValues \X TrimValues :
              TiltIntFactWith(t[1], t[2], t[3])
                = TiltIntFactWith(d_tilt_pot, tilt_pot, gyro_offset_pot)
        /\ (reset_complete /\ ~FallenNow') =>
              speed' = Mul(tilt_rads', TILT_FACT(tilt_pot))
                         + Mul(tilt_int_rads', TILT_INT_FACT)
                         + Mul(d_tilt_rads', D_TILT_FACT(d_tilt_pot)) ]_vars

\* all three trims turned away from 512 and sampled, and a command computed
\* with them
C18_Witness ==
    /\ TrimsSampled
    /\ d_tilt_pot = 0
    /\ tilt_pot = 1023
    /\ gyro_offset_pot = 0
    /\ reset_complete
    /\ speed # 0

\* C19: in the CALIBRATION build every tick leaves speed and last_speed at
\* 0 and writes duty 0 to both channels, while reset_complete follows the
\* Fallen and re-level conditions, a Balancing tick integrates and clamps
\* the tilt estimate, and the trims are sampled on their counter values.
C19_CalibrationNeverDrives ==
    [][ /\ speed' = 0 /\ last_speed' = 0
        /\ pwm_a' = 0 /\ pwm_b' = 0
        /\ reset_complete' = (IF FallenNow' THEN FALSE
                              ELSE IF ~reset_complete /\ LevelNow' THEN TRUE
                              ELSE reset_complete)
        /\ (reset_complete /\ ~FallenNow') =>
              /\ tilt_rads' = tilt_rads + (d_tilt_rads' + x_filt_gs')
              /\ tilt_int_rads' =
                    (IF tilt_int_rads + tilt_rads' > MAX_TILT_INT THEN MAX_TILT_INT
                     ELSE IF tilt_int_rads + tilt_rads' < -MAX_TILT_INT
                       THEN -MAX_TILT_INT
                     ELSE tilt_int_rads + tilt_rads')
        /\ trim_count' =
              [ p \in TrimPins |->
                  IF (p = "A3" /\ loop_count = 500) \/ (p = "A5" /\ loop_count = 1000)
                       \/ (p = "A4" /\ loop_count = 1500)
                    THEN trim_count[p] + 1 ELSE trim_count[p] ] ]_vars

\* the CALIBRATION build balancing with a tilt estimate and an integral that
\* would command the motors, all trims sampled
C19_Witness ==
    /\ CALIBRATION
    /\ TrimsSampled
    /\ reset_complete
    /\ ~FallenNow
    /\ tilt_rads # 0
    /\ tilt_int_rads # 0
    /\ d_tilt_rads # 0
    /\ tilt_pot # 0
    /\ pwm_a = 0 /\ pwm_b = 0

=============================================================================
